---- MODULE Spec2Model ----
(***************************************************************************)
(* Model of gdi.py: Gibbs-Duhem integration driver.                        *)
(*                                                                         *)
(* The evaluation oracle (GibbsDuhemFunc.__call__ -> make_dpdt) with its   *)
(* persisted record file database/dpdt.out, the task directories           *)
(* database/task.NNNNNN/{0,1} and the remote job dispatcher                *)
(* _group_slurm_jobs.                                                      *)
(*                                                                         *)
(* Numbers.  Temperatures, pressures, volumes and enthalpies are integers  *)
(* counting grid units of 1e-5 (K, bar, A^3, eV): 300 K is 30000000.  The  *)
(* tolerances 1e-4 and 1e-2 of the record search are then 10 and 1000.     *)
(* Every grid value has fewer than 17 significant digits, so '%.16e'       *)
(* prints it without rounding.                                             *)
(***************************************************************************)
EXTENDS Integers, Sequences, FiniteSets, TLC

(***************************************************************************)
(* Bounds of the model.                                                    *)
(***************************************************************************)
\* Largest number of records the store may hold before a cache miss is
\* no longer started.
MaxRecords == 3
\* Longest task list handed to _group_slurm_jobs on its own.
MaxTasks == 4
\* Largest group size handed to _group_slurm_jobs on its own.
MaxGroupSize == 3

(***************************************************************************)
(* Program constants.                                                      *)
(***************************************************************************)
\* gdi.py:150  np.linalg.norm(temp - data[ii][0]) < 1e-4
TolT == 10
\* gdi.py:151  np.linalg.norm(pres - data[ii][1]) < 1e-2
TolP == 1000
\* gdi.py:231  '%.16e': one digit before the point and 16 after it
SigDigits == 17
\* gdi.py:147  np.reshape(data, [-1,4])
NCols == 4
\* gdi.py:215  group_size argument of the call of _group_slurm_jobs
GroupSize == 1

\* Query temperatures: 300 K, 300.00004 K, 300.0001 K.  The second is
\* within tolerance of both others, the first and third are exactly one
\* tolerance apart (a miss, the comparison being strict).
Temps == {30000000, 30000004, 30000010}
\* Query pressures: 1 bar and 1.01 bar, exactly one tolerance apart.
Press == {100000, 101000}
\* Block averages ti._compute_thermo may report for phase 0 and phase 1.
Thermo0 == {[v |-> 2000000, h |-> -300000]}
Thermo1 == {[v |-> 2000003, h |-> -299995], [v |-> 1999998, h |-> -300007]}
\* Values the caller may pass as integration direction.
Directions == {"t", "p", "x"}

Abs(n) == IF n < 0 THEN -n ELSE n

(***************************************************************************)
(* Text of database/dpdt.out.                                              *)
(***************************************************************************)
RECURSIVE Digits(_)
\* The decimal digits of a natural number, most significant first.
Digits(n) == IF n < 10 THEN <<n>> ELSE Append(Digits(n \div 10), n % 10)

Zeros(k) == [i \in 1..k |-> 0]

\* Variant of fmt_e: '%.6e', seven significant digits.
fmt_e_short(v) ==
    LET d == Digits(Abs(v))
        m == d \o Zeros(SigDigits - Len(d))
    IN [neg  |-> v < 0,
        mant |-> SubSeq(m, 1, 7),
        exp  |-> Len(d) - 1]

\* '%.16e' % v : sign, 17 significant digits, decimal exponent.
fmt_e(v) ==
    LET d == Digits(Abs(v))
    IN [neg  |-> v < 0,
        mant |-> d \o Zeros(SigDigits - Len(d)),
        exp  |-> Len(d) - 1]

\* fp.write('%.16e %.16e %.16e %.16e\n' % (temp, pres, dv, dh))
fmt_line(temp, pres, dv, dh) ==
    <<fmt_e(temp), fmt_e(pres), fmt_e(dv), fmt_e(dh)>>

RECURSIVE mant_value(_, _)
\* The number the first k digits of a mantissa spell (digits past its end
\* count as 0).
mant_value(mant, k) ==
    IF k = 0 THEN 0
    ELSE 10 * mant_value(mant, k - 1)
            + (IF k <= Len(mant) THEN mant[k] ELSE 0)

\* float(token), as np.loadtxt converts each field: the digits up to the
\* decimal exponent (the grid values have none beyond it).
to_float(tok) ==
    LET n == mant_value(tok.mant, tok.exp + 1)
    IN IF tok.neg THEN -n ELSE n

RECURSIVE Flatten(_)
Flatten(rows) ==
    IF rows = <<>> THEN <<>> ELSE Head(rows) \o Flatten(Tail(rows))

\* np.loadtxt(fname): an array, given by its shape and its values in row
\* order.  One line of text gives a 1-d array, several lines a 2-d one.
loadtxt(lines) ==
    LET vals == [i \in 1..Len(lines) |->
                    [c \in 1..Len(lines[i]) |-> to_float(lines[i][c])]]
    IN [shape |-> IF Len(lines) = 0 THEN <<0>>
                  ELSE IF Len(lines) = 1 THEN <<Len(lines[1])>>
                  ELSE <<Len(lines), Len(lines[1])>>,
        flat  |-> Flatten(vals)]

\* np.reshape(data, [-1,4]): the rows of four values each.
reshape4(arr) ==
    [i \in 1..(Len(arr.flat) \div NCols) |->
        SubSeq(arr.flat, NCols * (i - 1) + 1, NCols * i)]

\* data = np.loadtxt('database/dpdt.out'); data = np.reshape(data, [-1,4])
load_data(lines) == reshape4(loadtxt(lines))

(***************************************************************************)
(* The record search of make_dpdt.                                         *)
(***************************************************************************)
\* Variant of is_match: exact equality instead of the tolerances.
is_match_exact(temp, pres, row) ==
    /\ temp = row[1]
    /\ pres = row[2]

\* gdi.py:150-151: the record row is within tolerance of (temp, pres).
is_match(temp, pres, row) ==
    /\ Abs(temp - row[1]) < TolT
    /\ Abs(pres - row[2]) < TolP

RECURSIVE scan_from_last(_, _, _, _)
\* Variant of scan_from: no break, the last matching row wins.
scan_from_last(data, temp, pres, ii) ==
    IF ii >= Len(data) THEN -1
    ELSE LET rest == scan_from_last(data, temp, pres, ii + 1)
         IN IF rest >= 0 THEN rest
            ELSE IF is_match(temp, pres, data[ii + 1]) THEN ii
            ELSE -1

RECURSIVE scan_from(_, _, _, _)
\* gdi.py:149-157: for ii in range(data.shape[0]) ... break.  The 0-based
\* index of the first matching row from ii on, -1 when there is none.
scan_from(data, temp, pres, ii) ==
    IF ii >= Len(data) THEN -1
    ELSE IF is_match(temp, pres, data[ii + 1]) THEN ii
    ELSE scan_from(data, temp, pres, ii + 1)

\* Variant of match_idx: the scan starts at the second row.
match_idx_from_one(data, temp, pres) == scan_from(data, temp, pres, 1)

\* The 0-based index of the record make_dpdt reuses, -1 on a cache miss.
match_idx(data, temp, pres) == scan_from(data, temp, pres, 0)

\* gdi.py:164  min_val = 1e10.  1e10 (K or bar) is 10^15 grid units, above
\* the integer range of the model checker; it is modelled by the largest
\* integer, which like 1e10 exceeds every distance between query values.
min_val_init == 2147483647

\* Variant of closer: <= instead of <.
closer_or_equal(dist, min_val) == dist <= min_val

\* gdi.py:168, 174: if dist < min_val
closer(dist, min_val) == dist < min_val

RECURSIVE nearest_from(_, _, _, _, _, _)
\* gdi.py:166-170 and 172-176: the loop over the rows, comparing column
\* col (1: temperature, 2: pressure) with val.
nearest_from(data, col, val, ii, min_val, min_idx) ==
    IF ii >= Len(data) THEN min_idx
    ELSE LET dist == Abs(data[ii + 1][col] - val)
         IN IF closer(dist, min_val)
            THEN nearest_from(data, col, val, ii + 1, dist, ii)
            ELSE nearest_from(data, col, val, ii + 1, min_val, min_idx)

\* gdi.py:163-179: the outcome of the search for the nearest record,
\* "ok" with min_idx, or the exception raised.
nearest(data, dir, temp, pres) ==
    IF dir \notin {"t", "p"}
    THEN [kind |-> "RuntimeError: invalid inte_dir", min_idx |-> -1]
    ELSE LET m == IF dir = "t"
                  THEN nearest_from(data, 1, temp, 0, min_val_init, -1)
                  ELSE nearest_from(data, 2, pres, 0, min_val_init, -1)
         IN IF m >= 0 THEN [kind |-> "ok", min_idx |-> m]
            ELSE [kind |-> "AssertionError", min_idx |-> m]

\* gdi.py:180, 192  'task.%06d' % n : the digits of n, zero-padded to 6.
task_name(n) ==
    LET d == Digits(n)
    IN IF Len(d) >= 6 THEN d ELSE Zeros(6 - Len(d)) \o d

\* A task is a path, held as the sequence of its components.
\* gdi.py:209  run_tasks = ['0', '1']
run_tasks == << <<"0">>, <<"1">> >>

\* gdi.py:25  os.path.basename(j): the last component of the path.
basename(j) == j[Len(j)]

Min(a, b) == IF a < b THEN a ELSE b

\* gdi.py:25  [os.path.basename(j) for j in tasks[lo:hi]] (0-based lo,
\* hi exclusive and cut at the end of the list).
basenames(tasks, lo, hi) ==
    [m \in 1..(Min(hi, Len(tasks)) - lo) |-> basename(tasks[lo + m])]

\* Variant of chunks_of: all tasks in one chunk.
chunks_one(tasks, group_size) == <<basenames(tasks, 0, Len(tasks))>>

\* Variant of chunks_of: only full chunks are made.
chunks_full_only(tasks, group_size) ==
    [k \in 1..(Len(tasks) \div group_size) |->
        basenames(tasks, (k - 1) * group_size, k * group_size)]

\* gdi.py:24-27: consecutive chunks of at most group_size tasks.
chunks_of(tasks, group_size) ==
    [k \in 1..((Len(tasks) + group_size - 1) \div group_size) |->
        basenames(tasks, (k - 1) * group_size, k * group_size)]

\* gdi.py:28-37: where _group_slurm_jobs goes once the chunks are made:
\* into the body of the for loop, or past it when there is no chunk.
first_pc(chunks) == IF chunks = <<>> THEN "while" ELSE "upload_common"

(***************************************************************************)
(* State.                                                                  *)
(***************************************************************************)
VARIABLES
    pc,          \* where the process is: "new" (no GibbsDuhemFunc yet),
                 \* "idle" (between oracle calls), or a place inside
                 \* _group_slurm_jobs / make_dpdt
    inte_dir,    \* self.inte_dir, "none" before construction
    ssh_sess,    \* an SSHSession has been opened by this process
    cwd,         \* "start": the directory the process started in,
                 \* "task": task_path (after os.chdir(task_path))
    task_path,   \* the output directory exists, holding in.json,
                 \* conf.0.lmp, conf.1.lmp and graph.pb
    database,    \* the directory task_path/database exists
    dpdt_out,    \* database/dpdt.out: whether it exists, and its lines
    task_dirs,   \* the directories database/task.<name>/<phase>
    fetched,     \* those of them holding log.lammps and out.lmp
    via,         \* "gdf": make_dpdt was called by __call__, "direct": by
                 \* a script
    x, y,        \* arguments of __call__
    temp, pres,  \* arguments of make_dpdt
    counter,     \* local of make_dpdt
    dir,         \* argument inte_dir of make_dpdt, once it is read
    min_idx,     \* local of make_dpdt (-1 when no search was made)
    conf_0,      \* locals of make_dpdt: the starting configurations
    conf_1,
    work_path,   \* name of the task directory of the running dispatch
    tasks,       \* arguments of _group_slurm_jobs (0 when not called)
    group_size,
    task_chunks, \* locals of _group_slurm_jobs
    rjob,        \* the handle being prepared (a sequence of 0 or 1 job)
    job_list,
    job_fin,
    idx,
    ret,         \* what the last oracle call returned or raised
    appended,    \* history: the records written to dpdt.out, as numbers
    run_new      \* history: cache misses this process has started

procVars  == <<inte_dir, ssh_sess>>
fsVars    == <<task_path, database, dpdt_out, task_dirs, fetched>>
frameVars == <<via, x, y, temp, pres, counter, dir, min_idx, conf_0, conf_1>>
\* What a running _group_slurm_jobs never assigns again.
argVars   == <<work_path, tasks, group_size, task_chunks>>
jobVars   == <<argVars, rjob, job_list, job_fin, idx>>
vars == <<pc, procVars, cwd, fsVars, frameVars, jobVars, ret, appended,
          run_new>>

\* A path below task_path: a file of the task directory task (of
\* task_path itself when task is empty).
NoConf == [task |-> <<>>, file |-> ""]

NoRet == [kind |-> "none", tfac |-> 0, dv |-> 0, dh |-> 0]
Raised(what) == [kind |-> what, tfac |-> 0, dv |-> 0, dh |-> 0]

Init ==
    /\ pc = "new"
    /\ inte_dir = "none"
    /\ ssh_sess = FALSE
    /\ cwd = "start"
    /\ task_path = FALSE
    /\ database = FALSE
    /\ dpdt_out = [exists |-> FALSE, lines |-> <<>>]
    /\ task_dirs = {}
    /\ fetched = {}
    /\ via = "none"
    /\ x = 0 /\ y = 0 /\ temp = 0 /\ pres = 0
    /\ counter = 0
    /\ dir = "none"
    /\ min_idx = -1
    /\ conf_0 = NoConf
    /\ conf_1 = NoConf
    /\ work_path = <<>>
    /\ tasks = <<>>
    /\ group_size = 0
    /\ task_chunks = <<>>
    /\ rjob = <<>>
    /\ job_list = <<>>
    /\ job_fin = <<>>
    /\ idx = 0
    /\ ret = NoRet
    /\ appended = <<>>
    /\ run_new = 0

(***************************************************************************)
(* GibbsDuhemFunc.__init__                                                 *)
(***************************************************************************)
\* gdi.py:246-260.  The direction is stored as given; the SSH session is
\* opened; _setup_dpdt fills task_path unless the directory exists.
Construct(d) ==
    /\ pc = "new"
    /\ inte_dir' = d
    /\ ssh_sess' = TRUE
    /\ task_path' = TRUE
    /\ pc' = "idle"
    /\ UNCHANGED <<cwd, database, dpdt_out, task_dirs, fetched, frameVars,
                   jobVars, ret, appended, run_new>>

\* gdi.py:344-346 (the script kept in comments at the end of the file):
\* ssh_sess = SSHSession(mdata['machine']); _setup_dpdt unless the
\* directory exists.  No GibbsDuhemFunc is made.
ScriptSetup ==
    /\ pc = "new"
    /\ ssh_sess' = TRUE
    /\ task_path' = TRUE
    /\ pc' = "idle"
    /\ UNCHANGED <<inte_dir, cwd, database, dpdt_out, task_dirs, fetched,
                   frameVars, jobVars, ret, appended, run_new>>

(***************************************************************************)
(* make_dpdt, up to the call of _group_slurm_jobs                          *)
(***************************************************************************)
\* gdi.py:137-138: a record file is there to be searched.
found == database /\ dpdt_out.exists

\* gdi.py:146-148: the records make_dpdt reads (none when not found).
data == IF found THEN load_data(dpdt_out.lines) ELSE <<>>

\* gdi.py:268, 274: what __call__(xx, yy) makes of [dv, dh]: the slope,
\* given by its form, its temperature factor and the two differences.
gdf_return(xx, yy, dv, dh) ==
    IF inte_dir = "t"
    THEN [kind |-> "dh/(T*dv)", tfac |-> xx, dv |-> dv, dh |-> dh]
    ELSE [kind |-> "(T*dv)/dh", tfac |-> yy, dv |-> dv, dh |-> dh]

\* gdi.py:234: return [dv, dh], to __call__ or to the script.
make_dpdt_return(v, xx, yy, dv, dh) ==
    IF v = "gdf" THEN gdf_return(xx, yy, dv, dh)
    ELSE [kind |-> "[dv,dh]", tfac |-> 0, dv |-> dv, dh |-> dh]

\* Variant of call_point: the arguments are passed on in the order
\* given, whatever the direction.
call_point_unswapped(xx, yy) == [temp |-> xx, pres |-> yy]

\* gdi.py:263-273: the point __call__(xx, yy) passes to make_dpdt.
call_point(xx, yy) ==
    IF inte_dir = "t" THEN [temp |-> xx, pres |-> yy]
    ELSE [temp |-> yy, pres |-> xx]

\* The calls __call__ makes of make_dpdt when the direction is 't' or 'p':
\* the integrator passes the integration variable first.
GdfCalls ==
    {[via |-> "gdf", x |-> a[1], y |-> a[2],
      temp |-> call_point(a[1], a[2]).temp,
      pres |-> call_point(a[1], a[2]).pres, dir |-> inte_dir] :
        a \in IF inte_dir = "t" THEN Temps \X Press ELSE Press \X Temps}

\* The calls a script makes of make_dpdt itself, with any direction.
DirectCalls ==
    {[via |-> "direct", x |-> 0, y |-> 0, temp |-> t, pres |-> p,
      dir |-> d] : t \in Temps, p \in Press, d \in Directions}

\* A process either drives the oracle through its GibbsDuhemFunc or is a
\* script calling make_dpdt (inte_dir "none": no object was made).
Calls ==
    IF inte_dir \in {"t", "p"} THEN GdfCalls
    ELSE IF inte_dir = "none" THEN DirectCalls
    ELSE {}

\* The call binds the arguments.
Bind(c) ==
    /\ via' = c.via /\ x' = c.x /\ y' = c.y
    /\ temp' = c.temp /\ pres' = c.pres

\* gdi.py:262-274: __call__ with a direction that is neither 't' nor 'p'
\* falls through both branches and returns None.
GdfCallNone(xx, yy) ==
    /\ pc = "idle"
    /\ inte_dir \notin {"t", "p", "none"}
    /\ xx \in Temps /\ yy \in Press
    /\ ret' = Raised("None")
    /\ UNCHANGED <<pc, procVars, cwd, fsVars, frameVars, jobVars, appended,
                   run_new>>

\* gdi.py:130: assert(os.path.isdir(task_path)) fails.  task_path is a
\* relative path (as the default 'new_job' of _main): it names no
\* directory once the process has been left inside task_path.
MakeDpdtNoPath(c) ==
    /\ pc = "idle"
    /\ ~(task_path /\ cwd = "start")
    /\ c \in Calls
    /\ ret' = Raised("AssertionError")
    /\ UNCHANGED <<pc, procVars, cwd, fsVars, frameVars, jobVars, appended,
                   run_new>>

\* gdi.py:149-157 and 233-234: a record matches; nothing is simulated.
MakeDpdtHit(c, dat) ==
    /\ pc = "idle"
    /\ task_path /\ cwd = "start"
    /\ match_idx(dat, c.temp, c.pres) >= 0
    /\ Bind(c)
    /\ LET row == dat[match_idx(dat, c.temp, c.pres) + 1]
       IN ret' = make_dpdt_return(c.via, c.x, c.y, row[3], row[4])
    /\ UNCHANGED <<pc, procVars, cwd, fsVars, counter, dir, min_idx, conf_0,
                   conf_1, jobVars, appended, run_new>>

\* gdi.py:180-181: os.path.join('database', 'task.%06d' % m, phase,
\* 'out.lmp')
out_lmp(m, phase) == [task |-> task_name(m), file |-> phase \o "/out.lmp"]

\* Variant of start_from: the configurations of the setup are taken by
\* the first evaluation a process makes, whatever is stored.
start_from_first_of_run(dat, d, t, p) ==
    IF run_new > 0
    THEN LET n == nearest(dat, d, t, p)
         IN [kind |-> n.kind, min_idx |-> n.min_idx,
             conf_0 |-> [task |-> task_name(n.min_idx),
                         file |-> "0/out.lmp"],
             conf_1 |-> [task |-> task_name(n.min_idx),
                         file |-> "1/out.lmp"]]
    ELSE [kind |-> "ok", min_idx |-> -1,
          conf_0 |-> [task |-> <<>>, file |-> "conf.0.lmp"],
          conf_1 |-> [task |-> <<>>, file |-> "conf.1.lmp"]]

\* gdi.py:160-184: where the starting configurations come from: the
\* nearest record when a record file exists, else the configurations of
\* the setup.  kind is "ok" or the exception the search raises.
start_from(dat, d, t, p) ==
    IF dpdt_out.exists
    THEN LET n == nearest(dat, d, t, p)
         IN [kind |-> n.kind, min_idx |-> n.min_idx,
             conf_0 |-> out_lmp(n.min_idx, "0"),
             conf_1 |-> out_lmp(n.min_idx, "1")]
    ELSE [kind |-> "ok", min_idx |-> -1,
          conf_0 |-> [task |-> <<>>, file |-> "conf.0.lmp"],
          conf_1 |-> [task |-> <<>>, file |-> "conf.1.lmp"]]

\* gdi.py:56: os.path.isfile(conf_file), the process being in task_path.
conf_isfile(conf) ==
    IF conf.task = <<>> THEN task_path
    ELSE \E ph \in {"0", "1"} :
            /\ conf.file = ph \o "/out.lmp"
            /\ <<conf.task, ph>> \in fetched

\* gdi.py:160-178: no record matches and the search for the nearest
\* record raises.  os.chdir(cwd) at line 233 is not reached.
MakeDpdtBadDir(c, dat) ==
    /\ pc = "idle"
    /\ task_path /\ cwd = "start"
    /\ match_idx(dat, c.temp, c.pres) < 0
    /\ start_from(dat, c.dir, c.temp, c.pres).kind # "ok"
    /\ Bind(c)
    /\ counter' = Len(dat)
    /\ dir' = c.dir
    /\ cwd' = "task"
    /\ ret' = Raised(start_from(dat, c.dir, c.temp, c.pres).kind)
    /\ UNCHANGED <<pc, procVars, fsVars, min_idx, conf_0, conf_1, jobVars,
                   appended, run_new>>

\* Variant of new_work_path: the identifier after the record count.
new_work_path_next(cnt) == task_name(cnt + 1)

\* gdi.py:192: work_path = os.path.join('database', 'task.%06d' % counter)
new_work_path(cnt) == task_name(cnt)

\* gdi.py:187-218: no record matches: the two task directories are made
\* (_make_tasks_onephase, lines 56-92, twice) and _group_slurm_jobs is
\* entered (lines 24-28).  create_path gives a fresh directory, so what an
\* earlier failed attempt left under the same name is gone.
MakeDpdtMiss(c, dat) ==
    LET cnt == Len(dat)
        sf  == start_from(dat, c.dir, c.temp, c.pres)
        wp  == new_work_path(cnt)
    IN
    /\ pc = "idle"
    /\ task_path /\ cwd = "start"
    /\ match_idx(dat, c.temp, c.pres) < 0
    /\ sf.kind = "ok"
    /\ cnt < MaxRecords
    /\ Bind(c)
    /\ counter' = cnt
    /\ dir' = IF dpdt_out.exists THEN c.dir ELSE "none"
    /\ min_idx' = sf.min_idx
    /\ conf_0' = sf.conf_0
    /\ conf_1' = sf.conf_1
    /\ cwd' = "task"
    /\ run_new' = run_new + 1
    /\ IF ~conf_isfile(sf.conf_0)
       THEN /\ ret' = Raised("AssertionError")
            /\ UNCHANGED <<pc, fsVars, jobVars>>
       ELSE IF ~conf_isfile(sf.conf_1)
       THEN /\ ret' = Raised("AssertionError")
            /\ database' = TRUE
            /\ task_dirs' = task_dirs \cup {<<wp, "0">>}
            /\ fetched' = fetched \ {<<wp, "0">>}
            /\ UNCHANGED <<pc, task_path, dpdt_out, jobVars>>
       ELSE /\ database' = TRUE
            /\ task_dirs' = task_dirs \cup {<<wp, "0">>, <<wp, "1">>}
            /\ fetched' = fetched \ {<<wp, "0">>, <<wp, "1">>}
            /\ work_path' = wp
            /\ tasks' = run_tasks
            /\ group_size' = GroupSize
            /\ task_chunks' = chunks_of(run_tasks, GroupSize)
            /\ rjob' = <<>>
            /\ job_list' = <<>>
            /\ job_fin' = <<>>
            /\ idx' = 0
            /\ pc' = first_pc(chunks_of(run_tasks, GroupSize))
            /\ ret' = NoRet
            /\ UNCHANGED <<task_path, dpdt_out>>
    /\ UNCHANGED <<procVars, appended>>

(***************************************************************************)
(* _group_slurm_jobs                                                       *)
(***************************************************************************)
\* A remote job handle: the tasks of its chunk, the operations performed
\* on it in order, and the last status seen.
NewJob(chunk) ==
    [chunk |-> chunk, log |-> <<>>, status |-> "unsubmitted"]

Did(job, op) == [job EXCEPT !.log = Append(@, op)]

\* gdi.py:30-31: rjob = remote_job(ssh_sess, work_path);
\* rjob.upload('.', forward_common_files)
UploadCommon ==
    /\ pc = "upload_common"
    /\ rjob' = <<Did(NewJob(task_chunks[Len(job_list) + 1]),
                     "upload_common")>>
    /\ pc' = "upload_task"
    /\ UNCHANGED <<procVars, cwd, fsVars, frameVars, argVars,
                   job_list, job_fin, idx, ret, appended, run_new>>

\* gdi.py:32: rjob.upload(chunk, forward_task_files)
UploadTask ==
    /\ pc = "upload_task"
    /\ rjob' = <<Did(rjob[1], "upload_task")>>
    /\ pc' = "submit"
    /\ UNCHANGED <<procVars, cwd, fsVars, frameVars, argVars,
                   job_list, job_fin, idx, ret, appended, run_new>>

\* Variant of Submit: polling starts as soon as a job is submitted.
Submit_then_poll ==
    /\ pc = "submit"
    /\ job_list' = Append(job_list,
                          [Did(rjob[1], "submit") EXCEPT
                               !.status = "submitted"])
    /\ rjob' = <<>>
    /\ pc' = "while"
    /\ job_fin' = [i \in 1..(Len(job_list) + 1) |-> FALSE]
    /\ UNCHANGED <<procVars, cwd, fsVars, frameVars, argVars, idx, ret,
                   appended, run_new>>

\* gdi.py:33-36: rjob.submit(chunk, command, resources = resources);
\* job_list.append(rjob); after the last chunk, job_fin is set up.
Submit ==
    /\ pc = "submit"
    /\ job_list' = Append(job_list,
                          [Did(rjob[1], "submit") EXCEPT
                               !.status = "submitted"])
    /\ rjob' = <<>>
    /\ IF Len(job_list) + 1 < Len(task_chunks)
       THEN pc' = "upload_common" /\ UNCHANGED job_fin
       ELSE pc' = "while" /\ job_fin' = [i \in 1..Len(task_chunks) |-> FALSE]
    /\ UNCHANGED <<procVars, cwd, fsVars, frameVars, argVars,
                   idx, ret, appended, run_new>>

\* Variant of all_fin: any(fin).
any_fin(fin) == \E i \in 1..Len(fin) : fin[i]

\* gdi.py:37: all(job_fin)
all_fin(fin) == \A i \in 1..Len(fin) : fin[i]

\* gdi.py:37: while not all(job_fin)
WhileTest ==
    /\ pc = "while"
    /\ IF all_fin(job_fin)
       THEN pc' = "returned" /\ UNCHANGED idx
       ELSE pc' = "for" /\ idx' = 0
    /\ UNCHANGED <<procVars, cwd, fsVars, frameVars, argVars,
                   rjob, job_list, job_fin, ret, appended, run_new>>

\* gdi.py:38-39: a chunk already marked done is passed over.
ForSkip ==
    /\ pc = "for"
    /\ idx < Len(job_list)
    /\ job_fin[idx + 1]
    /\ idx' = idx + 1
    /\ UNCHANGED <<pc, procVars, cwd, fsVars, frameVars, argVars, rjob,
                   job_list, job_fin, ret, appended, run_new>>

\* gdi.py:40-43: status = rjob.check_status(), neither terminated nor
\* finished: the loop goes on to the next chunk.
CheckRunning ==
    /\ pc = "for"
    /\ idx < Len(job_list)
    /\ ~job_fin[idx + 1]
    /\ job_list' = [job_list EXCEPT ![idx + 1].status = "running"]
    /\ idx' = idx + 1
    /\ UNCHANGED <<pc, procVars, cwd, fsVars, frameVars, argVars, rjob,
                   job_fin, ret, appended, run_new>>

\* Variant of CheckTerminated: the terminated status is taken like any
\* other unfinished status and the loop goes on.
CheckTerminated_ignored ==
    /\ pc = "for"
    /\ idx < Len(job_list)
    /\ ~job_fin[idx + 1]
    /\ job_list' = [job_list EXCEPT ![idx + 1].status = "terminated"]
    /\ idx' = idx + 1
    /\ UNCHANGED <<pc, procVars, cwd, fsVars, frameVars, argVars, rjob,
                   job_fin, ret, appended, run_new>>

\* Variant of CheckTerminated: the terminated job is cleaned before the
\* error is raised.
CheckTerminated_cleaning ==
    /\ pc = "for"
    /\ idx < Len(job_list)
    /\ ~job_fin[idx + 1]
    /\ job_list' = [job_list EXCEPT
                       ![idx + 1] = Did([@ EXCEPT !.status = "terminated"],
                                        "clean")]
    /\ ret' = Raised("RuntimeError: terminated job")
    /\ pc' = "idle"
    /\ UNCHANGED <<procVars, cwd, fsVars, frameVars, argVars, rjob, job_fin,
                   idx, appended, run_new>>

\* gdi.py:40-42: status == JobStatus.terminated: raise RuntimeError.  The
\* exception leaves _group_slurm_jobs, make_dpdt and __call__; the process
\* stays in task_path.
CheckTerminated ==
    /\ pc = "for"
    /\ idx < Len(job_list)
    /\ ~job_fin[idx + 1]
    /\ job_list' = [job_list EXCEPT ![idx + 1].status = "terminated"]
    /\ ret' = Raised("RuntimeError: terminated job")
    /\ pc' = "idle"
    /\ UNCHANGED <<procVars, cwd, fsVars, frameVars, argVars,
                   rjob, job_fin, idx, appended, run_new>>

\* gdi.py:40-43: status == JobStatus.finished
CheckFinished ==
    /\ pc = "for"
    /\ idx < Len(job_list)
    /\ ~job_fin[idx + 1]
    /\ job_list' = [job_list EXCEPT ![idx + 1].status = "finished"]
    /\ pc' = "download"
    /\ UNCHANGED <<procVars, cwd, fsVars, frameVars, argVars,
                   rjob, job_fin, idx, ret, appended, run_new>>

\* Variant of Download: the results of the first chunk are fetched,
\* whichever job has finished.
Download_first_chunk ==
    /\ pc = "download"
    /\ job_list' = [job_list EXCEPT ![idx + 1] = Did(@, "download")]
    /\ fetched' = fetched \cup
           {<<work_path, task_chunks[1][k]>> : k \in 1..Len(task_chunks[1])}
    /\ pc' = "clean"
    /\ UNCHANGED <<procVars, cwd, task_path, database, dpdt_out, task_dirs,
                   frameVars, argVars, rjob, job_fin, idx, ret, appended,
                   run_new>>

\* gdi.py:44: rjob.download(task_chunks[idx], backward_task_files):
\* log.lammps and out.lmp arrive in the task directories of the chunk.
Download ==
    /\ pc = "download"
    /\ job_list' = [job_list EXCEPT ![idx + 1] = Did(@, "download")]
    /\ fetched' = fetched \cup
           {<<work_path, task_chunks[idx + 1][k]>> :
                k \in 1..Len(task_chunks[idx + 1])}
    /\ pc' = "clean"
    /\ UNCHANGED <<procVars, cwd, task_path, database, dpdt_out, task_dirs,
                   frameVars, argVars, rjob, job_fin, idx,
                   ret, appended, run_new>>

\* Variant of Clean: the chunk is not marked done.
Clean_unmarked ==
    /\ pc = "clean"
    /\ job_list' = [job_list EXCEPT ![idx + 1] = Did(@, "clean")]
    /\ idx' = idx + 1
    /\ pc' = "for"
    /\ UNCHANGED <<procVars, cwd, fsVars, frameVars, argVars, rjob, job_fin,
                   ret, appended, run_new>>

\* gdi.py:45-46: rjob.clean(); job_fin[idx] = True
Clean ==
    /\ pc = "clean"
    /\ job_list' = [job_list EXCEPT ![idx + 1] = Did(@, "clean")]
    /\ job_fin' = [job_fin EXCEPT ![idx + 1] = TRUE]
    /\ idx' = idx + 1
    /\ pc' = "for"
    /\ UNCHANGED <<procVars, cwd, fsVars, frameVars, argVars,
                   rjob, ret, appended, run_new>>

\* gdi.py:47: the for loop is over; time.sleep(30)
Sleep ==
    /\ pc = "for"
    /\ idx = Len(job_list)
    /\ pc' = "while"
    /\ UNCHANGED <<procVars, cwd, fsVars, frameVars, jobVars, ret, appended,
                   run_new>>

(***************************************************************************)
(* make_dpdt, after _group_slurm_jobs has returned                         *)
(***************************************************************************)
\* gdi.py:228-229: dv = t1['v'] - t0['v']; dh = t1['h'] - t0['h']
diff_of(t0, t1) == [dv |-> t1.v - t0.v, dh |-> t1.h - t0.h]

\* Variant of append_record: the file is opened with 'w'.
append_record_truncating(f, t, p, dv, dh) ==
    [exists |-> TRUE, lines |-> <<fmt_line(t, p, dv, dh)>>]

\* gdi.py:230-232: the record is appended to database/dpdt.out
append_record(f, t, p, dv, dh) ==
    [exists |-> TRUE, lines |-> Append(f.lines, fmt_line(t, p, dv, dh))]

\* gdi.py:220-234: the two logs are reduced, the record is written, the
\* process returns to its directory and [dv, dh] is returned.  The locals
\* of make_dpdt and of _group_slurm_jobs are gone with the return.
Collect ==
    /\ pc = "returned"
    /\ <<work_path, "0">> \in fetched
    /\ <<work_path, "1">> \in fetched
    /\ \E t0 \in Thermo0, t1 \in Thermo1 :
          LET d == diff_of(t0, t1)
          IN /\ dpdt_out' = append_record(dpdt_out, temp, pres, d.dv, d.dh)
             /\ appended' = Append(appended,
                                   [temperature |-> temp, pressure |-> pres,
                                    dv |-> d.dv, dh |-> d.dh])
             /\ ret' = make_dpdt_return(via, x, y, d.dv, d.dh)
    /\ cwd' = "start"
    /\ pc' = "idle"
    /\ counter' = 0
    /\ dir' = "none"
    /\ min_idx' = -1
    /\ conf_0' = NoConf
    /\ conf_1' = NoConf
    /\ work_path' = <<>>
    /\ tasks' = <<>>
    /\ group_size' = 0
    /\ task_chunks' = <<>>
    /\ job_list' = <<>>
    /\ job_fin' = <<>>
    /\ idx' = 0
    /\ UNCHANGED <<procVars, task_path, database, task_dirs, fetched, via,
                   x, y, temp, pres, rjob, run_new>>

(***************************************************************************)
(* The process ends; a later process works on the same output directory.   *)
(***************************************************************************)
Restart ==
    /\ pc = "idle"
    /\ pc' = "new"
    /\ inte_dir' = "none"
    /\ ssh_sess' = FALSE
    /\ cwd' = "start"
    /\ via' = "none"
    /\ x' = 0 /\ y' = 0 /\ temp' = 0 /\ pres' = 0
    /\ counter' = 0
    /\ dir' = "none"
    /\ min_idx' = -1
    /\ conf_0' = NoConf
    /\ conf_1' = NoConf
    /\ work_path' = <<>>
    /\ tasks' = <<>>
    /\ group_size' = 0
    /\ task_chunks' = <<>>
    /\ rjob' = <<>>
    /\ job_list' = <<>>
    /\ job_fin' = <<>>
    /\ idx' = 0
    /\ ret' = NoRet
    /\ run_new' = 0
    /\ UNCHANGED <<fsVars, appended>>

Next ==
    \/ \E d \in Directions : Construct(d)
    \/ ScriptSetup
    \/ \E xx \in Temps, yy \in Press : GdfCallNone(xx, yy)
    \/ \E c \in Calls : MakeDpdtNoPath(c)
    \/ LET dat == data IN \E c \in Calls : MakeDpdtHit(c, dat)
    \/ LET dat == data IN \E c \in Calls : MakeDpdtBadDir(c, dat)
    \/ LET dat == data IN \E c \in Calls : MakeDpdtMiss(c, dat)
    \/ UploadCommon
    \/ UploadTask
    \/ Submit
    \/ WhileTest
    \/ ForSkip
    \/ CheckRunning
    \/ CheckTerminated
    \/ CheckFinished
    \/ Download
    \/ Clean
    \/ Sleep
    \/ Collect
    \/ Restart

Spec == Init /\ [][Next]_vars

(***************************************************************************)
(* _group_slurm_jobs on its own, for any task list and group size.         *)
(***************************************************************************)
\* Task lists: n tasks named 0, 1, ..., given by their bare names or as
\* paths into a directory.
TaskList(n, in_dir) ==
    [m \in 1..n |->
        IF in_dir THEN <<"sub", ToString(m - 1)>> ELSE <<ToString(m - 1)>>]

TaskLists == {TaskList(n, b) : n \in 0..MaxTasks, b \in BOOLEAN}

GroupSizes == 1..MaxGroupSize

\* gdi.py:14-28: _group_slurm_jobs has been called by a process standing
\* in its output directory, for the tasks of one work_path whose
\* directories exist; task_chunks is made and job_list is empty.
InitDispatch ==
    /\ tasks \in TaskLists
    /\ group_size \in GroupSizes
    /\ task_chunks = chunks_of(tasks, group_size)
    /\ pc = first_pc(task_chunks)
    /\ work_path = task_name(0)
    /\ inte_dir = "none"
    /\ ssh_sess = TRUE
    /\ cwd = "task"
    /\ task_path = TRUE
    /\ database = TRUE
    /\ dpdt_out = [exists |-> FALSE, lines |-> <<>>]
    /\ task_dirs = {<<work_path, basename(tasks[m])>> : m \in 1..Len(tasks)}
    /\ fetched = {}
    /\ via = "none"
    /\ x = 0 /\ y = 0 /\ temp = 0 /\ pres = 0
    /\ counter = 0
    /\ dir = "none"
    /\ min_idx = -1
    /\ conf_0 = NoConf
    /\ conf_1 = NoConf
    /\ rjob = <<>>
    /\ job_list = <<>>
    /\ job_fin = <<>>
    /\ idx = 0
    /\ ret = NoRet
    /\ appended = <<>>
    /\ run_new = 0

NextDispatch ==
    \/ UploadCommon
    \/ UploadTask
    \/ Submit
    \/ WhileTest
    \/ ForSkip
    \/ CheckRunning
    \/ CheckTerminated
    \/ CheckFinished
    \/ Download
    \/ Clean
    \/ Sleep

SpecDispatch == InitDispatch /\ [][NextDispatch]_vars

\* The process runs on: each step of the code that is enabled is taken.
\* The remote side: a job that is polled again and again is in the end
\* reported finished.
FairDispatch ==
    /\ WF_vars(UploadCommon)
    /\ WF_vars(UploadTask)
    /\ WF_vars(Submit)
    /\ WF_vars(WhileTest)
    /\ WF_vars(ForSkip)
    /\ WF_vars(Download)
    /\ WF_vars(Clean)
    /\ WF_vars(Sleep)
    /\ SF_vars(CheckFinished)

LiveDispatch == SpecDispatch /\ FairDispatch

(***************************************************************************)
(* Properties.                                                             *)
(***************************************************************************)
\* The store: the record sequence read back from database/dpdt.out.
Records == load_data(dpdt_out.lines)

\* Record r describes the point (t, p) under the tolerance metric.
Within(t, p, r) == Abs(t - r[1]) < TolT /\ Abs(p - r[2]) < TolP

\* Some record of the sequence R describes (t, p).
Hits(R, t, p) == \E i \in 1..Len(R) : Within(t, p, R[i])

\* The first record of R, in insertion order, describing (t, p).
FirstHit(R, t, p) ==
    CHOOSE i \in 1..Len(R) :
        /\ Within(t, p, R[i])
        /\ \A j \in 1..(i - 1) : ~Within(t, p, R[j])

\* A cache-miss evaluation is under way.
InEval ==
    pc \in {"upload_common", "upload_task", "submit", "while", "for",
            "download", "clean", "returned"}

\* The dispatcher has submitted every chunk.
Polling == pc \in {"while", "for", "download", "clean", "returned"}

\* A normal return of make_dpdt.
Returned(r) == r.kind \in {"dh/(T*dv)", "(T*dv)/dh", "[dv,dh]"}

\* The step is a call of make_dpdt that got past its first line: temp',
\* pres' are the point asked for.
CallStep ==
    /\ pc = "idle"
    /\ pc' # "new"
    /\ cwd = "start"
    /\ ret'.kind # "None"

\* n written with six decimal digits.
Pad6(n) ==
    <<(n \div 100000) % 10, (n \div 10000) % 10, (n \div 1000) % 10,
      (n \div 100) % 10, (n \div 10) % 10, n % 10>>

\* No record of R is exactly the point (t, p).
NoExactRecord(R, t, p) ==
    \A i \in 1..Len(R) : R[i][1] # t \/ R[i][2] # p

\* C1: a call of make_dpdt for a point some stored record describes within
\* tolerance creates no task directory, touches no remote job and appends
\* no record: file system, job handles and store are as before the call.
C1_HitLeavesStoreUnchanged ==
    [][(CallStep /\ Hits(Records, temp', pres'))
          => /\ pc' = "idle"
             /\ UNCHANGED <<fsVars, jobVars, appended, run_new>>]_vars

\* C1 witness: a call has returned for a point that no record holds
\* exactly and one record describes within tolerance.
C1_Witness ==
    /\ pc = "idle"
    /\ Returned(ret)
    /\ Hits(Records, temp, pres)
    /\ NoExactRecord(Records, temp, pres)

\* C2: from the empty store, after N completed new evaluations the store
\* holds exactly N records, in evaluation order, and any two of them
\* differ by at least 1e-4 in temperature or by at least 1e-2 in pressure.
C2_Uniqueness ==
    LET R == Records
    IN /\ Len(R) = Len(appended)
       /\ \A i \in 1..Len(R) :
             /\ R[i][1] = appended[i].temperature
             /\ R[i][2] = appended[i].pressure
       /\ \A i \in 1..Len(R) : \A j \in (i + 1)..Len(R) :
             \/ Abs(R[i][1] - R[j][1]) >= TolT
             \/ Abs(R[i][2] - R[j][2]) >= TolP

\* C2 witness: three evaluations have completed; the first and the last
\* record are exactly one temperature tolerance apart at one pressure.
C2_Witness ==
    LET R == Records
    IN /\ Len(appended) = 3
       /\ Abs(R[1][1] - R[3][1]) = TolT
       /\ R[1][2] = R[3][2]

HasTerminated ==
    \E j \in 1..Len(job_list) : job_list[j].status = "terminated"

SubmitCount(job) ==
    Cardinality({k \in 1..Len(job.log) : job.log[k] = "submit"})

\* C3: when check_status of a dispatched job returns terminated, the call
\* raises at once, the record file is as it was when the call began (its
\* record count is the count read at the start of the call), and no job
\* is ever submitted twice.
C3_FatalPropagation ==
    [][/\ (~HasTerminated
             /\ \E j \in 1..Len(job_list') :
                   job_list'[j].status = "terminated")
            => /\ ret'.kind = "RuntimeError: terminated job"
               /\ pc' = "idle"
               /\ dpdt_out' = dpdt_out
               /\ appended' = appended
       /\ HasTerminated
            => /\ pc = "idle"
               /\ Len(Records) = counter
               /\ Len(job_list) <= Len(task_chunks)
               /\ \A j \in 1..Len(job_list) :
                     SubmitCount(job_list[j]) = 1]_vars

\* C3 witness: the second job was seen terminated after the first had
\* finished and been fetched; the call has raised.
C3_Witness ==
    /\ pc = "idle"
    /\ ret.kind = "RuntimeError: terminated job"
    /\ Len(job_list) = 2
    /\ job_list[1].status = "finished"
    /\ job_list[2].status = "terminated"
    /\ Len(Records) = 1

\* C4 as stated: the k-th cache miss of a run works under task.<k-1>.
C4_KthMissOfRunUsesKMinusOne ==
    InEval => work_path = Pad6(run_new - 1)

\* C4 (amended): every cache miss makes its two task directories under
\* database/task.<n>, six digits, where n is the number of records in the
\* store during the evaluation, which is the number of new evaluations
\* completed since the store was empty; hits and failed misses in between
\* consume no identifier.
C4_TaskIdIsRecordCount ==
    InEval =>
        LET n == Len(Records)
        IN /\ work_path = Pad6(n)
           /\ counter = n
           /\ n = Len(appended)
           /\ {<<work_path, "0">>, <<work_path, "1">>} \subseteq task_dirs

\* C4 witness: a process that has made no evaluation before works under
\* task.000002 on a store of two records.
C4_Witness ==
    /\ InEval
    /\ run_new = 1
    /\ Len(appended) = 2
    /\ work_path = <<0, 0, 0, 0, 0, 2>>

\* C5: a call hits the store iff some record is within 1e-4 of temp and
\* within 1e-2 of pres (both strict), and then returns the dv and dh of
\* the first such record in insertion order.
C5_FirstMatchWithinTolerance ==
    [][CallStep =>
          LET R == Records
          IN IF Hits(R, temp', pres')
             THEN /\ Returned(ret')
                  /\ ret'.dv = R[FirstHit(R, temp', pres')][3]
                  /\ ret'.dh = R[FirstHit(R, temp', pres')][4]
             ELSE ~Returned(ret')]_vars

\* C5 witness: a hit on a point two records describe, the later one being
\* nearer in temperature and holding other values; the values returned
\* are those of the earlier one.
C5_Witness ==
    LET R == Records
    IN /\ pc = "idle"
       /\ Returned(ret)
       /\ NoExactRecord(R, temp, pres)
       /\ \E i \in 1..Len(R) : \E j \in (i + 1)..Len(R) :
             /\ Within(temp, pres, R[i])
             /\ Within(temp, pres, R[j])
             /\ Abs(temp - R[j][1]) < Abs(temp - R[i][1])
             /\ R[i][3] # R[j][3]
             /\ ret.dv = R[i][3]
             /\ ret.dh = R[i][4]

\* The distance of record i (0-based) of R from the point asked for,
\* along the axis d.
AxisDist(R, i, d) ==
    IF d = "t" THEN Abs(R[i + 1][1] - temp) ELSE Abs(R[i + 1][2] - pres)

\* The warm start of the evaluation under way is the nearest record along
\* the direction, the lowest index among equally near ones, and the
\* starting configurations are its two out.lmp.
NearestChosen ==
    LET R == Records
    IN
    /\ dir \in {"t", "p"}
    /\ min_idx \in 0..(Len(R) - 1)
    /\ \A j \in 0..(Len(R) - 1) :
          AxisDist(R, min_idx, dir) <= AxisDist(R, j, dir)
    /\ \A j \in 0..(min_idx - 1) :
          AxisDist(R, min_idx, dir) < AxisDist(R, j, dir)
    /\ conf_0 = [task |-> Pad6(min_idx), file |-> "0/out.lmp"]
    /\ conf_1 = [task |-> Pad6(min_idx), file |-> "1/out.lmp"]

\* C6: on a cache miss with a non-empty store the warm-start index
\* minimises |record.temperature - temp| for direction 't' and
\* |record.pressure - pres| for 'p', lowest index first, and the starting
\* configurations are database/task.<index>/{0,1}/out.lmp; any other
\* direction raises and nothing is made.
C6_NearestNeighbour ==
    [][/\ (InEval /\ dpdt_out.exists) => NearestChosen
       /\ (CallStep /\ ~Hits(Records, temp', pres') /\ dpdt_out.exists
             /\ dir' \notin {"t", "p"})
            => /\ ret'.kind = "RuntimeError: invalid inte_dir"
               /\ pc' = "idle"
               /\ UNCHANGED <<fsVars, jobVars>>]_vars

\* C6 witness: along 't', with two records, the second one is strictly
\* nearer and is chosen.
C6_Witness ==
    LET R == Records
    IN /\ InEval
       /\ dir = "t"
       /\ Len(R) = 2
       /\ min_idx = 1
       /\ AxisDist(R, 1, "t") < AxisDist(R, 0, "t")

\* C7 as stated: both phase tasks go through one job handle.
C7_SingleJobHandle ==
    Polling => /\ Len(job_list) = 1
               /\ job_list[1].chunk = <<"0", "1">>

\* C7 (amended): on every cache miss the two phase tasks are dispatched
\* by one call of _group_slurm_jobs with group size 1: two chunks of one
\* task each, '0' then '1', each through its own job handle, each
\* submitted once, and both submitted before any status is polled.
C7_OneHandlePerPhase ==
    Polling =>
        /\ Len(job_list) = 2
        /\ job_list[1].chunk = <<"0">>
        /\ job_list[2].chunk = <<"1">>
        /\ \A j \in 1..2 :
              /\ SubSeq(job_list[j].log, 1, 3)
                    = <<"upload_common", "upload_task", "submit">>
              /\ SubmitCount(job_list[j]) = 1

\* C7 witness: polling starts with two submitted jobs, none polled yet.
C7_Witness ==
    /\ pc = "for"
    /\ idx = 0
    /\ Len(job_list) = 2
    /\ \A j \in 1..2 : job_list[j].status = "submitted"

\* C8: a direction that is neither 't' nor 'p' makes the construction
\* fail before an SSH session is opened, and no call of the oracle
\* returns without a derivative.
C8_InvalidDirectionFailsAtSetup ==
    /\ inte_dir \notin {"none", "t", "p"} => (~ssh_sess /\ pc = "new")
    /\ ret.kind # "None"

\* C9: the record file before any step is a prefix of the file after it,
\* a step adds at most one record, and every line is one record.
C9_AppendOnly ==
    [][/\ dpdt_out.exists => dpdt_out'.exists
       /\ Len(dpdt_out'.lines) \in {Len(dpdt_out.lines),
                                    Len(dpdt_out.lines) + 1}
       /\ SubSeq(dpdt_out'.lines, 1, Len(dpdt_out.lines)) = dpdt_out.lines
       /\ Len(Records) = Len(dpdt_out.lines)]_vars

\* C9 witness: two records are stored and a later evaluation has failed.
C9_Witness ==
    /\ Len(Records) = 2
    /\ ret.kind = "RuntimeError: terminated job"

\* C10: the records read back from database/dpdt.out are the records
\* appended so far (count, order and the four values), also when there is
\* exactly one; without the file the count is 0; the task identifier of
\* an evaluation is the count read back; and a call for any point
\* evaluated before finds a record, in this process or a later one.
C10_RoundTripAndResume ==
    /\ Records = [i \in 1..Len(appended) |->
                     <<appended[i].temperature, appended[i].pressure,
                       appended[i].dv, appended[i].dh>>]
    /\ ~dpdt_out.exists => (Len(appended) = 0 /\ Len(data) = 0)
    /\ InEval => (counter = Len(appended) /\ work_path = Pad6(counter))
    /\ LET dat == data
       IN \A i \in 1..Len(appended) :
             match_idx(dat, appended[i].temperature, appended[i].pressure)
                 = i - 1

\* C10 witness: a process that has evaluated nothing itself has answered
\* a call from a file of exactly one record.
C10_Witness ==
    /\ pc = "idle"
    /\ run_new = 0
    /\ Len(appended) = 1
    /\ Returned(ret)
    /\ ret.dv = appended[1].dv
    /\ ret.dh = appended[1].dh

(***************************************************************************)
(* Properties of _group_slurm_jobs.                                        *)
(***************************************************************************)
\* What was done on a submitted job, and on one that was handled after
\* it was seen finished.
SubmittedLog == <<"upload_common", "upload_task", "submit">>
HandledLog == SubmittedLog \o <<"download", "clean">>

\* The task directories of chunk j of the running dispatch.
ChunkDirs(j) ==
    {<<work_path, task_chunks[j][k]>> : k \in 1..Len(task_chunks[j])}

\* C11: the step on which check_status first returns terminated raises
\* at once, doing nothing else to any job; from then on every chunk not
\* marked done has been neither downloaded nor cleaned (the terminated
\* one included), and every chunk marked done has its results.
C11_AbortOnTerminated ==
    /\ [][(~HasTerminated
             /\ \E j \in 1..Len(job_list') :
                   job_list'[j].status = "terminated")
            => /\ pc' = "idle"
               /\ ret'.kind = "RuntimeError: terminated job"
               /\ job_fin' = job_fin
               /\ fetched' = fetched
               /\ Len(job_list') = Len(job_list)
               /\ \A j \in 1..Len(job_list) :
                     /\ job_list'[j].log = job_list[j].log
                     /\ j # idx + 1 => job_list'[j] = job_list[j]]_vars
    /\ [][HasTerminated => UNCHANGED <<job_list, job_fin, fetched>>]_vars
    /\ [](HasTerminated
            => /\ pc = "idle"
               /\ \A j \in 1..Len(job_list) :
                     IF job_fin[j]
                     THEN /\ job_list[j].log = HandledLog
                          /\ ChunkDirs(j) \subseteq fetched
                     ELSE /\ job_list[j].log = SubmittedLog
                          /\ ChunkDirs(j) \cap fetched = {})

\* C11 witness: of three jobs the first was handled, the second is still
\* running and the third was seen terminated; the call has raised.
C11_Witness ==
    /\ pc = "idle"
    /\ ret.kind = "RuntimeError: terminated job"
    /\ Len(job_list) = 3
    /\ job_fin[1] /\ ~job_fin[2] /\ ~job_fin[3]
    /\ job_list[2].status = "running"
    /\ job_list[3].status = "terminated"

\* s is an initial part of t.
IsPrefix(s, t) == Len(s) <= Len(t) /\ s = SubSeq(t, 1, Len(s))

\* Chunk j has been marked done.
Done(j) == j <= Len(job_fin) /\ job_fin[j]

\* C12: a chunk seen finished has the results of all its tasks
\* downloaded, then its job cleaned, then is marked done, in this order;
\* a chunk marked done is passed over by the polling loop and nothing is
\* done on its job again; so no job is downloaded or cleaned twice, and
\* none is cleaned before it is downloaded.
C12_FinishedHandledOnce ==
    /\ [](\A j \in 1..Len(job_list) :
             /\ IsPrefix(job_list[j].log, HandledLog)
             /\ Len(job_list[j].log) > Len(SubmittedLog)
                   => /\ job_list[j].status = "finished"
                      /\ ChunkDirs(j) \subseteq fetched
             /\ Done(j) <=> job_list[j].log = HandledLog)
    /\ [][/\ \A j \in 1..Len(job_list) :
                Done(j) => /\ job_list'[j] = job_list[j]
                           /\ job_fin'[j]
          /\ (pc = "for" /\ idx < Len(job_list) /\ ~Done(idx + 1)
                /\ job_list'[idx + 1].status = "finished")
               => /\ pc' = "download"
                  /\ job_list'[idx + 1].log = SubmittedLog
                  /\ job_fin' = job_fin
          /\ pc = "download"
               => /\ pc' = "clean"
                  /\ job_list'[idx + 1].log
                        = SubmittedLog \o <<"download">>
                  /\ job_fin' = job_fin
          /\ pc = "clean"
               => /\ job_list'[idx + 1].log = HandledLog
                  /\ job_fin'[idx + 1]
                  /\ fetched' = fetched
          /\ (pc = "for" /\ idx < Len(job_list) /\ Done(idx + 1))
               => /\ pc' = "for"
                  /\ idx' = idx + 1
                  /\ UNCHANGED <<job_list, job_fin, fetched>>]_vars

\* C12 witness: the polling loop has just handled the first chunk, of
\* two tasks, and comes to the second, marked done in an earlier round.
C12_Witness ==
    /\ pc = "for"
    /\ idx = 1
    /\ Len(job_list) = 2
    /\ Len(task_chunks[1]) = 2
    /\ job_fin[1] /\ job_fin[2]
    /\ job_list[1].log = HandledLog
    /\ ChunkDirs(1) \subseteq fetched

\* C13: _group_slurm_jobs has returned only if every chunk has a job
\* that was seen finished, downloaded and cleaned; it is left otherwise
\* only by the error of a terminated job, so it does not return while a
\* job is reported neither finished nor terminated; with no task it
\* submits and polls nothing; and when the jobs polled again and again
\* are in the end reported finished, it returns unless a job was seen
\* terminated.
C13_DispatcherCompletion ==
    /\ [](pc = "returned"
            => /\ Len(job_list) = Len(task_chunks)
               /\ \A j \in 1..Len(task_chunks) :
                     /\ job_list[j].status = "finished"
                     /\ job_list[j].log = HandledLog
                     /\ ChunkDirs(j) \subseteq fetched)
    /\ [](pc = "idle" => HasTerminated)
    /\ [](tasks = <<>>
            => /\ pc \in {"while", "returned"}
               /\ job_list = <<>>
               /\ rjob = <<>>)
    /\ <>(pc = "returned" \/ HasTerminated)

\* C13 witness: the call has returned after two chunks, the second one
\* smaller than the first.
C13_Witness ==
    /\ pc = "returned"
    /\ Len(job_list) = 2
    /\ Len(task_chunks[1]) = 2
    /\ Len(task_chunks[2]) = 1
    /\ \A j \in 1..2 : job_list[j].log = HandledLog

\* The chunks of the running dispatch, one after the other.
AllChunks == Flatten(task_chunks)

\* C14 as stated: the chunks, one after the other, are the task list.
C14_ChunksAreTheTasks ==
    [m \in 1..Len(AllChunks) |-> <<AllChunks[m]>>] = tasks

\* C14 (amended): for every task list and every group size >= 1 the
\* chunks are consecutive, none is empty or longer than group_size, only
\* the last may be shorter, and one after the other they are the base
\* names of the tasks in order (the tasks themselves only when these are
\* bare names); each chunk gets exactly one job handle, submitted once.
C14_ChunkPartition ==
    /\ group_size >= 1
    /\ \A k \in 1..Len(task_chunks) :
          /\ Len(task_chunks[k]) \in 1..group_size
          /\ k < Len(task_chunks) => Len(task_chunks[k]) = group_size
    /\ Len(AllChunks) = Len(tasks)
    /\ \A m \in 1..Len(tasks) : AllChunks[m] = basename(tasks[m])
    /\ (\A m \in 1..Len(tasks) : Len(tasks[m]) = 1)
          => C14_ChunksAreTheTasks
    /\ Len(job_list) + Len(rjob) <= Len(task_chunks)
    /\ \A j \in 1..Len(job_list) :
          /\ job_list[j].chunk = task_chunks[j]
          /\ SubmitCount(job_list[j]) = 1
    /\ Polling => Len(job_list) = Len(task_chunks)

\* C14 witness: three tasks given as paths into a directory are polled
\* as a chunk of two and a chunk of one.
C14_Witness ==
    /\ pc = "for"
    /\ Len(tasks) = 3
    /\ Len(tasks[1]) = 2
    /\ group_size = 2
    /\ Len(job_list) = 2
    /\ job_list[2].chunk = <<basename(tasks[3])>>

\* C15: on every job the common files were uploaded, then the files of
\* its tasks, then the command was submitted, once each and in this
\* order, before anything else was done on it; and as long as a chunk
\* is still to be submitted no job has had its status checked, so every
\* chunk is in flight when polling begins.
C15_SubmissionOrdering ==
    /\ \A j \in 1..Len(job_list) :
          /\ IsPrefix(SubmittedLog, job_list[j].log)
          /\ job_list[j].status # "unsubmitted"
    /\ \A r \in 1..Len(rjob) :
          /\ rjob[r].status = "unsubmitted"
          /\ rjob[r].log \in {SubSeq(SubmittedLog, 1, 1),
                               SubSeq(SubmittedLog, 1, 2)}
          /\ rjob[r].chunk = task_chunks[Len(job_list) + 1]
    /\ Len(job_list) < Len(task_chunks)
          => /\ ~Polling
             /\ \A j \in 1..Len(job_list) :
                   /\ job_list[j].status = "submitted"
                   /\ job_list[j].log = SubmittedLog
    /\ pc \in {"upload_task", "submit"} <=> rjob # <<>>

\* C15 witness: the common files of the third chunk are uploaded while
\* the two jobs before it are submitted and not yet polled.
C15_Witness ==
    /\ pc = "upload_task"
    /\ Len(job_list) = 2
    /\ Len(task_chunks) = 3
    /\ rjob[1].log = <<"upload_common">>
    /\ \A j \in 1..2 : job_list[j].status = "submitted"

(***************************************************************************)
(* Properties of the evaluations.                                          *)
(***************************************************************************)
\* The evaluation starts from the two configurations of the setup.
UsesSetupConfs ==
    /\ conf_0 = [task |-> <<>>, file |-> "conf.0.lmp"]
    /\ conf_1 = [task |-> <<>>, file |-> "conf.1.lmp"]

\* The evaluation starts from the out.lmp of both phases of one stored
\* record's task directory.
UsesRecordConfs ==
    \E i \in 0..(Len(appended) - 1) :
        /\ conf_0 = [task |-> Pad6(i), file |-> "0/out.lmp"]
        /\ conf_1 = [task |-> Pad6(i), file |-> "1/out.lmp"]

\* C16 as stated: the configurations of the setup are used by the first
\* evaluation of a run and by no other.
C16_SetupConfsIffFirstOfRun ==
    InEval => (UsesSetupConfs <=> run_new = 1)

\* C16 (amended): a new evaluation starts from the configurations of
\* the setup if and only if database/dpdt.out does not exist when it is
\* called, and this is so only while the store holds no record;
\* otherwise, the first evaluation of a resumed run included, it starts
\* from the out.lmp of both phases of the nearest record's task
\* directory and never from the configurations of the setup.
C16_SetupConfsIffNoRecordFile ==
    InEval =>
        /\ UsesSetupConfs <=> ~dpdt_out.exists
        /\ ~dpdt_out.exists => (min_idx = -1 /\ Len(appended) = 0)
        /\ dpdt_out.exists
             => /\ UsesRecordConfs
                /\ ~UsesSetupConfs
                /\ conf_0.task = Pad6(min_idx)
                /\ conf_1.task = Pad6(min_idx)
                /\ conf_isfile(conf_0) /\ conf_isfile(conf_1)

\* C16 witness: the first evaluation of a resumed run starts from the
\* second of two stored records.
C16_Witness ==
    /\ InEval
    /\ run_new = 1
    /\ Len(appended) = 2
    /\ min_idx = 1
    /\ UsesRecordConfs
    /\ ~UsesSetupConfs

\* Both phase directories of task n exist and hold the downloaded
\* log.lammps and out.lmp.
TaskComplete(n) ==
    \A ph \in {"0", "1"} :
        /\ <<Pad6(n), ph>> \in task_dirs
        /\ <<Pad6(n), ph>> \in fetched

\* C17: from the empty store on, every record i has its task directory
\* task.<i> with the downloaded results of both phases; a record is
\* appended only by an evaluation whose two jobs were both seen
\* finished, downloaded and cleaned, into the directory named after the
\* record's index; and the warm-start files of a new evaluation exist.
C17_RecordsBackedBySimulations ==
    [][/\ \A i \in 1..Len(dpdt_out.lines) : TaskComplete(i - 1)
       /\ Len(dpdt_out.lines) = Len(appended)
       /\ pc' = "returned"
            => /\ work_path' = Pad6(Len(dpdt_out'.lines))
               /\ \A ph \in {"0", "1"} :
                     /\ <<work_path', ph>> \in task_dirs'
                     /\ <<work_path', ph>> \in fetched'
               /\ Len(job_list') = 2
               /\ \A j \in 1..2 :
                     /\ job_list'[j].status = "finished"
                     /\ job_list'[j].log = HandledLog
       /\ dpdt_out' # dpdt_out
            => /\ pc = "returned"
               /\ Len(dpdt_out'.lines) = Len(dpdt_out.lines) + 1
       /\ (InEval /\ min_idx >= 0)
            => /\ min_idx < Len(dpdt_out.lines)
               /\ conf_isfile(conf_0)
               /\ conf_isfile(conf_1)]_vars

\* C17 witness: three records are stored, each with its complete task
\* directory; the call that wrote the third has returned.
C17_Witness ==
    /\ pc = "idle"
    /\ Len(dpdt_out.lines) = 3
    /\ \A i \in 0..2 : TaskComplete(i)
    /\ Returned(ret)
    /\ ret.dv = appended[3].dv

\* The appended record a describes the point (t, p) within tolerance.
Describes(a, t, p) ==
    Abs(t - a.temperature) < TolT /\ Abs(p - a.pressure) < TolP

\* C18: __call__(x, y) evaluates the point (temperature x, pressure y)
\* when the direction is 't' and (temperature y, pressure x) when it is
\* 'p'; the slope it returns has the form of its direction, with the
\* temperature of that point as factor and the dv, dh of the record of
\* that point: the record just appended for it, or the first stored
\* record describing it.
C18_DirectionToPoint ==
    /\ []((via = "gdf" /\ (InEval \/ (pc = "idle" /\ Returned(ret))))
            => /\ inte_dir \in {"t", "p"}
               /\ inte_dir = "t" => (temp = x /\ pres = y)
               /\ inte_dir = "p" => (temp = y /\ pres = x))
    /\ [][(via' = "gdf" /\ pc' = "idle" /\ Returned(ret')
            /\ (pc = "returned" \/ CallStep))
           => /\ ret'.kind = IF inte_dir = "t" THEN "dh/(T*dv)"
                             ELSE "(T*dv)/dh"
              /\ ret'.tfac = temp'
              /\ IF pc = "returned"
                 THEN /\ appended' # appended
                      /\ LET a == appended'[Len(appended')]
                         IN /\ a.temperature = temp' /\ a.pressure = pres'
                            /\ ret'.dv = a.dv /\ ret'.dh = a.dh
                 ELSE /\ appended' = appended
                      /\ \E i \in 1..Len(appended) :
                            /\ Describes(appended[i], temp', pres')
                            /\ \A j \in 1..(i - 1) :
                                  ~Describes(appended[j], temp', pres')
                            /\ ret'.dv = appended[i].dv
                            /\ ret'.dh = appended[i].dh]_vars

\* C18 witness: along 'p' a new evaluation has returned; its record
\* holds the second argument as temperature and the first as pressure,
\* after a record of another point.
C18_Witness ==
    /\ pc = "idle"
    /\ inte_dir = "p"
    /\ via = "gdf"
    /\ ret.kind = "(T*dv)/dh"
    /\ Len(appended) = 2
    /\ appended[2].temperature = y
    /\ appended[2].pressure = x
    /\ ret.tfac = y
    /\ ret.dv = appended[2].dv
    /\ appended[1].pressure # x

====
